---- MODULE Spec2Model ----
(***************************************************************************)
(* The R1CS / Assignments binary codec of src/r1cs: the VarInt and         *)
(* SignedVarInt integer codecs, the header, linear-combination and         *)
(* constraint records, the two file codecs and the encode retry loop.      *)
(*                                                                         *)
(* Machine integers (usize, u64, i64; a 64-bit target) are vectors of W    *)
(* bits, held as 16-bit limbs, so that every shift, cast, addition and     *)
(* negation is computed at its width.  An i64 is the same vector read in   *)
(* two's complement.  Bytes are the integers 0..255.                       *)
(*                                                                         *)
(* Arithmetic overflow is a property of the build: with overflow checks    *)
(* (the dev and test profiles) an overflowing +, -, * or an over-wide      *)
(* shift panics, without them (the release profile) it wraps.  The         *)
(* variable build holds which of the two the run is.                       *)
(***************************************************************************)
EXTENDS Integers, Sequences, FiniteSets, TLC

VARIABLES
    build,   \* "debug" (overflow checks on) or "release" (wrapping)
    pc,      \* where the call is: "idle", "fed", "encoding", "encoded", "decoded",
             \* "converted", "inverted", or one of the "..._panicked"
    kind,    \* what is being coded: "usize", "i64", "r1cs", "assignments"
    origin,  \* where data comes from: "value", "bytes", "prefix", "reencode"
    val,     \* the in-memory value handed to the encoder
    data,    \* the byte buffer (the encoder's Vec<u8>, the decoder's input)
    res,     \* what the last call returned to its caller
    raw,     \* the entries of a hand-made header, when the bytes are hand-made
    full,    \* the whole encoding, when data is a strict prefix of it
    opts,    \* the command-line tool's two paths, and what is at each
    stage,   \* where main of the command-line tool is
    rbuf,    \* main's read buffer, buf
    out      \* the lines main has printed

vars == <<build, pc, kind, origin, val, data, res, raw, full, opts, stage, rbuf, out>>

\* The state of the command-line tool.
cli == <<opts, stage, rbuf, out>>

\* The width of usize, u64 and i64.
W == 64

(***************************************************************************)
(* 64-bit arithmetic on limbs: a machine integer is the sequence of its    *)
(* four 16-bit limbs, least significant first.                             *)
(***************************************************************************)
Base == 2 ^ 16

Limbs == W \div 16

\* The function as a sequence of limbs, its elements computed once.
Vec(f) == SubSeq(f, 1, Limbs)

Zero == Vec([j \in 1..Limbs |-> 0])

\* n as u64, for a natural n below 2^31.
FromNat(n) ==
    Vec([j \in 1..Limbs |-> CASE j = 1 -> n % Base [] j = 2 -> n \div Base [] OTHER -> 0])

\* Bit i of b, bit 0 being the least significant.
Bit(b, i) == (b[(i \div 16) + 1] \div (2 ^ (i % 16))) % 2

\* 2^k, for k in 0..W-1, and 2^k - 1, for k in 0..W.
Pow2(k) == Vec([j \in 1..Limbs |-> IF j = (k \div 16) + 1 THEN 2 ^ (k % 16) ELSE 0])

Ones(k) ==
    Vec([j \in 1..Limbs |->
            IF k >= 16 * j THEN Base - 1
            ELSE IF k <= 16 * (j - 1) THEN 0
            ELSE (2 ^ (k - 16 * (j - 1))) - 1])

\* Limb j of b, 0 outside the vector.
Limb(b, j) == IF j \in 1..Limbs THEN b[j] ELSE 0

\* b << k and b >> k (logical), for k in 0..W-1; bits shifted out are lost.
Shl(b, k) ==
    LET q == k \div 16
        r == k % 16
    IN Vec([j \in 1..Limbs |->
               ((Limb(b, j - q) * (2 ^ r)) % Base) + (Limb(b, j - q - 1) \div (2 ^ (16 - r)))])

Shr(b, k) ==
    LET q == k \div 16
        r == k % 16
    IN Vec([j \in 1..Limbs |->
               (Limb(b, j + q) \div (2 ^ r)) + ((Limb(b, j + q + 1) % (2 ^ r)) * (2 ^ (16 - r)))])

Not(b) == Vec([j \in 1..Limbs |-> Base - 1 - b[j]])

IsNegative(b) == b[Limbs] >= Base \div 2

\* b >> k on an i64: the sign bit is propagated.
Sar(b, k) == IF IsNegative(b) THEN Not(Shr(Not(b), k)) ELSE Shr(b, k)

\* x ^ y on the low n bits of two naturals.
RECURSIVE XorBits(_, _, _)
XorBits(x, y, n) ==
    IF n = 0 THEN 0 ELSE ((x + y) % 2) + 2 * XorBits(x \div 2, y \div 2, n - 1)

Xor(a, b) == Vec([j \in 1..Limbs |-> XorBits(a[j], b[j], 16)])

\* The limbs of a + b from limb j on, c being the carry into it, followed
\* by the carry out of the top limb.
RECURSIVE AddFrom(_, _, _, _)
AddFrom(a, b, j, c) ==
    IF j > Limbs THEN <<c>>
    ELSE <<(a[j] + b[j] + c) % Base>> \o AddFrom(a, b, j + 1, (a[j] + b[j] + c) \div Base)

\* a + b modulo 2^W.
Add(a, b) == SubSeq(AddFrom(a, b, 1, 0), 1, Limbs)

\* Whether a + b overflows u64.
AddOverflowsU(a, b) == AddFrom(a, b, 1, 0)[Limbs + 1] = 1

One == FromNat(1)

\* -b modulo 2^W; it overflows i64 exactly at the minimum value.
Neg(b) == Add(Not(b), One)

MinI64 == Pow2(W - 1)

MaxI64 == Ones(W - 1)

\* n & 127 as a byte, and n > 127.
Low7(n) == n[1] % 128

Above127(n) == n[1] > 127 \/ \E j \in 2..Limbs : n[j] # 0

\* The result of an arithmetic step: a value, or an overflow panic.
Val(v) == [ok |-> TRUE, v |-> v]

Overflow == [ok |-> FALSE, v |-> Zero]

Checked == build = "debug"

(***************************************************************************)
(* Parser results (nom's IResult) and a panic unwinding through a parser.  *)
(***************************************************************************)
POk(rest, v) == [tag |-> "Ok", rest |-> rest, val |-> v]

PErr(t) == [tag |-> t, rest |-> <<>>, val |-> <<>>]

(***************************************************************************)
(* VarInt.                                                                 *)
(***************************************************************************)
\* A loop off by one at the boundary: 127 is given a continuation byte.
RECURSIVE usize_to_bits_ge(_)
usize_to_bits_ge(n) ==
    IF Above127(n) \/ Low7(n) = 127
    THEN <<128 + Low7(n)>> \o usize_to_bits_ge(Shr(n, 7))
    ELSE <<Low7(n)>>

RECURSIVE usize_to_bits(_)
usize_to_bits(n) ==
    IF Above127(n)
    THEN <<128 + Low7(n)>> \o usize_to_bits(Shr(n, 7))
    ELSE <<Low7(n)>>

\* sum += t: a carry out of the top bit panics under overflow checks, and is
\* dropped without them.
AddChecked(sum, t) ==
    IF AddOverflowsU(sum.v, t) /\ Checked THEN Overflow ELSE Val(Add(sum.v, t))

\* res += (g as u64) << shift.  A shift by the width or more panics under
\* overflow checks; without them the shift amount is taken modulo the width.
AddGroup(sum, g, shift) ==
    IF ~sum.ok THEN Overflow
    ELSE IF shift >= W /\ Checked THEN Overflow
    ELSE AddChecked(sum, Shl(FromNat(g), shift % W))

\* The loop of bits_to_usize and bits_to_i64 over gs[i..], shift = 7 * (i-1).
RECURSIVE Accumulate(_, _, _)
Accumulate(gs, i, sum) ==
    IF i > Len(gs) THEN sum
    ELSE Accumulate(gs, i + 1, AddGroup(sum, gs[i], 7 * (i - 1)))

\* bits = <<the groups of the continuation bytes, the last group>>
bits_to_usize(bits) == Accumulate(Append(bits[1], bits[2]), 1, Val(Zero))

\* many_till!(continuation byte, final byte) under bits!: the groups of the
\* bytes whose top bit is set, up to the first byte whose top bit is clear.
RECURSIVE many_till(_, _)
many_till(input, acc) ==
    IF input = <<>> THEN PErr("Incomplete")
    ELSE IF Head(input) < 128 THEN POk(Tail(input), <<acc, Head(input)>>)
    ELSE many_till(Tail(input), Append(acc, Head(input) - 128))

\* The parse p with its value replaced by r, the result of a conversion
\* that may panic.
MapChecked(p, r) == IF ~r.ok THEN PErr("Panic") ELSE POk(p.rest, r.v)

\* res: many_till!(..) >> (bits_to_usize(res))
vlusize_of(p) == IF p.tag # "Ok" THEN p ELSE MapChecked(p, bits_to_usize(p.val))

vlusize(input) == vlusize_of(many_till(input, <<>>))

(***************************************************************************)
(* SignedVarInt.                                                           *)
(***************************************************************************)
\* The loop of i64_to_bits over the zigzag value.
RECURSIVE i64_groups(_)
i64_groups(n) ==
    IF Above127(n)
    THEN <<128 + Low7(n)>> \o i64_groups(Shr(n, 7))
    ELSE <<Low7(n)>>

\* ((n << 1) ^ (n >> 63)) as u64, then the groups; << on i64 never panics
\* for a shift below the width.
i64_to_bits(n) == i64_groups(Xor(Shl(n, 1), Sar(n, W - 1)))

\* -1 * x on i64: overflows exactly when x is the minimum value.
NegChecked(x) == IF x = MinI64 /\ Checked THEN Overflow ELSE Val(Neg(x))

\* The sign bit back from bit 0: res >> 1, or -1 * ((res >> 1) + 1).  The
\* addition is made on u64, where it cannot overflow.
Unzigzag(r) ==
    IF ~r.ok THEN Overflow
    ELSE IF Bit(r.v, 0) = 0 THEN Val(Shr(r.v, 1))
    ELSE NegChecked(Add(Shr(r.v, 1), One))

bits_to_i64(bits) == Unzigzag(Accumulate(Append(bits[1], bits[2]), 1, Val(Zero)))

\* res: many_till!(..) >> (bits_to_i64(res))
vli64_of(p) == IF p.tag # "Ok" THEN p ELSE MapChecked(p, bits_to_i64(p.val))

vli64(input) == vli64_of(many_till(input, <<>>))

(***************************************************************************)
(* VariableIndex and its conversions.  A usize cast to i64, or back, is    *)
(* the same bit vector read the other way.                                 *)
(***************************************************************************)
Constant == [t |-> "Constant", i |-> Zero]

Instance(i) == [t |-> "Instance", i |-> i]

Witness(i) == [t |-> "Witness", i |-> i]

\* a - b modulo 2^W.
Sub(a, b) == Add(a, Neg(b))

\* Instance(-i as usize - 1), n being -i.
InstanceOf(n) == IF ~n.ok THEN Overflow ELSE Val(Instance(Sub(n.v, One)))

\* impl From<i64> for VariableIndex.  -i overflows at the minimum value;
\* the subtraction of 1 never underflows, its operand being at least 1.
VariableIndex_from(i) ==
    IF i = Zero THEN Val(Constant)
    ELSE IF IsNegative(i) THEN InstanceOf(NegChecked(i))
    ELSE Val(Witness(Sub(i, One)))

\* x + 1 on i64: overflows exactly at the maximum value.
IncChecked(x) == IF x = MaxI64 /\ Checked THEN Overflow ELSE Val(Add(x, One))

\* -(n) for an instance variable, n for a witness, n being i as i64 + 1.
Signed(t, n) ==
    IF ~n.ok THEN Overflow
    ELSE IF t = "Instance" THEN NegChecked(n.v)
    ELSE n

\* impl From<&VariableIndex> for i64.
i64_from(vi) == IF vi.t = "Constant" THEN Val(Zero) ELSE Signed(vi.t, IncChecked(vi.i))

(***************************************************************************)
(* Header.                                                                 *)
(***************************************************************************)
Header(v, p, m, nx, nw, ignored) ==
    [v |-> v, p |-> p, m |-> m, nx |-> nx, nw |-> nw, ignored |-> ignored]

\* The first of n[0], n[1], n[2], n[3] that cannot be read as a usize:
\* 0 when all four can.  The fields are evaluated in order, so an entry is
\* indexed only when the ones before it were non-negative.
RECURSIVE FirstBad(_, _)
FirstBad(n, i) ==
    IF i > 4 THEN 0
    ELSE IF i > Len(n) \/ IsNegative(n[i]) THEN i
    ELSE FirstBad(n, i + 1)

\* Header::from_file with its first unreadable entry: Ok(header), Err(()) at
\* a negative entry, and a panic (index out of bounds) at an entry that is
\* not there.
from_file_at(v, n, i) ==
    IF i = 0
    THEN [tag |-> "Ok", h |-> Header(v, n[1], n[2], n[3], n[4], SubSeq(n, 5, Len(n)))]
    ELSE IF i > Len(n) THEN [tag |-> "Panic", h |-> <<>>]
    ELSE [tag |-> "Err", h |-> <<>>]

from_file(v, n) == from_file_at(v, n, FirstBad(n, 1))

\* Header::to_file: the four fields cast to i64, then the ignored entries.
to_file(h) == <<h.v, <<h.p, h.m, h.nx, h.nw>> \o h.ignored>>

(***************************************************************************)
(* Parsers.  A parser that follows another takes the other's result: it    *)
(* passes a failure on, and parses what is left after a success.           *)
(***************************************************************************)
\* A usize as a repetition count.  No buffer of the model is 2^20 bytes long
\* and every element takes a byte or more, so a count of 2^20 or more ends
\* as any such count does: the input runs out.
AsCount(n) ==
    IF n[2] >= 16 \/ \E j \in 3..Limbs : n[j] # 0 THEN 2 ^ 20
    ELSE n[1] + Base * n[2]

\* tag!(t): a differing byte is an error; an input that ends inside the tag
\* is incomplete.
tag(input, t) ==
    IF \E k \in 1..Len(t) : k <= Len(input) /\ input[k] # t[k] THEN PErr("Error")
    ELSE IF Len(input) < Len(t) THEN PErr("Incomplete")
    ELSE POk(SubSeq(input, Len(t) + 1, Len(input)), t)

\* i: vli64 >> (VariableIndex::from(i))
variable_index_of(p) ==
    IF p.tag # "Ok" THEN p ELSE MapChecked(p, VariableIndex_from(p.val))

variable_index(input) == variable_index_of(vli64(input))

coefficient(input) == vli64(input)

\* The parse q made after the parse p, the two values paired.
Paired(p, q) == IF q.tag # "Ok" THEN q ELSE POk(q.rest, <<p.val, q.val>>)

\* i: variable_index >> c: coefficient >> ((i, c))
pair_of(i) == IF i.tag # "Ok" THEN i ELSE Paired(i, coefficient(i.rest))

pair(input) == pair_of(variable_index(input))

\* count!(vli64, n) with the elements parsed so far in acc: n elements are
\* parsed one after the other, and the first failure is the failure of all.
RECURSIVE count_vli64(_, _, _)
RECURSIVE count_vli64_next(_, _, _)
count_vli64(input, n, acc) ==
    IF Len(acc) = n THEN POk(input, acc) ELSE count_vli64_next(vli64(input), n, acc)

count_vli64_next(e, n, acc) ==
    IF e.tag # "Ok" THEN e ELSE count_vli64(e.rest, n, Append(acc, e.val))

RECURSIVE count_pair(_, _, _)
RECURSIVE count_pair_next(_, _, _)
count_pair(input, n, acc) ==
    IF Len(acc) = n THEN POk(input, acc) ELSE count_pair_next(pair(input), n, acc)

count_pair_next(e, n, acc) ==
    IF e.tag # "Ok" THEN e ELSE count_pair(e.rest, n, Append(acc, e.val))

\* length_count!(vlusize, pair)
linear_combination_of(n) ==
    IF n.tag # "Ok" THEN n ELSE count_pair(n.rest, AsCount(n.val), <<>>)

linear_combination(input) == linear_combination_of(vlusize(input))

\* The linear combination parsed after the ones of p, added to them.
WithLC(p, q) == IF q.tag # "Ok" THEN q ELSE POk(q.rest, Append(p.val, q.val))

NextLC(p) == IF p.tag # "Ok" THEN p ELSE WithLC(p, linear_combination(p.rest))

\* a, b, c parsed one after the other.
ConstraintOf(p) ==
    IF p.tag # "Ok" THEN p
    ELSE POk(p.rest, [a |-> p.val[1], b |-> p.val[2], c |-> p.val[3]])

constraint(input) == ConstraintOf(NextLC(NextLC(NextLC(POk(input, <<>>)))))

RECURSIVE count_constraint(_, _, _)
RECURSIVE count_constraint_next(_, _, _)
count_constraint(input, n, acc) ==
    IF Len(acc) = n THEN POk(input, acc)
    ELSE count_constraint_next(constraint(input), n, acc)

count_constraint_next(e, n, acc) ==
    IF e.tag # "Ok" THEN e ELSE count_constraint(e.rest, n, Append(acc, e.val))

\* header: expr_res!(Header::from_file(v, n)), after the entries n.
header_from(n, h) ==
    CASE h.tag = "Ok" -> POk(n.rest, h.h)
      [] h.tag = "Err" -> PErr("Error")
      [] h.tag = "Panic" -> PErr("Panic")

header_of(v, n) == IF n.tag # "Ok" THEN n ELSE header_from(n, from_file(v.val, n.val))

\* n: length_count!(vlusize, vli64), after the version v and the length l.
header_entries(v, l) ==
    IF l.tag # "Ok" THEN l ELSE header_of(v, count_vli64(l.rest, AsCount(l.val), <<>>))

header_version(v) == IF v.tag # "Ok" THEN v ELSE header_entries(v, vlusize(v.rest))

header(input) == header_version(vlusize(input))

MagicR1CS == <<82, 49, 67, 83>>

MagicAssignments == <<82, 49, 97, 115>>

\* R1CS(h, cs)
R1CSOf(h, q) == IF q.tag # "Ok" THEN q ELSE POk(q.rest, [h |-> h.val, cs |-> q.val])

\* cs: length_count!(vlusize, constraint), after the header h and the count n.
r1cs_constraints(h, n) ==
    IF n.tag # "Ok" THEN n
    ELSE R1CSOf(h, count_constraint(n.rest, AsCount(n.val), <<>>))

r1cs_header(h) == IF h.tag # "Ok" THEN h ELSE r1cs_constraints(h, vlusize(h.rest))

r1cs_tag(t) == IF t.tag # "Ok" THEN t ELSE r1cs_header(header(t.rest))

r1cs(input) == r1cs_tag(tag(input, MagicR1CS))

\* The Assignment of the j-th value of a sub-range (enumerate's j, from 0).
Indexed(t, xs) ==
    SubSeq([j \in 1..Len(xs) |-> <<[t |-> t, i |-> FromNat(j - 1)], xs[j]>>], 1, Len(xs))

\* The values parsed after the ones of p, as the assignments of variables t.
WithRange(p, t, q) ==
    IF q.tag # "Ok" THEN q ELSE POk(q.rest, p.val \o Indexed(t, q.val))

\* One more sub-range of n values.
NextRange(p, t, n) ==
    IF p.tag # "Ok" THEN p ELSE WithRange(p, t, count_vli64(p.rest, n, <<>>))

\* The constant's value is an assignment of VariableIndex::Constant.
ConstantRange(c) ==
    IF c.tag # "Ok" THEN c ELSE POk(c.rest, << <<Constant, c.val[1]>> >>)

\* c: count!(vli64, 1) >> x: count!(vli64, nx) >> w: count!(vli64, nw)
assignment_array(input, nx, nw) ==
    NextRange(NextRange(ConstantRange(count_vli64(input, 1, <<>>)),
                        "Instance", AsCount(nx)),
              "Witness", AsCount(nw))

\* Assignments(h, res)
AssignmentsOf(h, q) == IF q.tag # "Ok" THEN q ELSE POk(q.rest, [h |-> h.val, as |-> q.val])

assignments_header(h) ==
    IF h.tag # "Ok" THEN h
    ELSE AssignmentsOf(h, assignment_array(h.rest, h.val.nx, h.val.nw))

assignments_tag(t) == IF t.tag # "Ok" THEN t ELSE assignments_header(header(t.rest))

assignments(input) == assignments_tag(tag(input, MagicAssignments))

(***************************************************************************)
(* Generators.  A generator takes the buffer and an offset and returns the *)
(* buffer and the offset after its bytes, or BufferTooSmall(size needed);  *)
(* do_gen! runs its generators in order and stops at the first failure.    *)
(* The buffer is written in place, so what a failed run wrote stays.       *)
(***************************************************************************)
Gen(buf, idx) == [tag |-> "Ok", buf |-> buf, idx |-> idx]

\* A write that asks for one byte more than it needs when the buffer is
\* too small.
gen_slice_pad(g, bytes) ==
    IF g.tag # "Ok" THEN g
    ELSE IF Len(g.buf) < g.idx + Len(bytes)
         THEN [tag |-> "BufferTooSmall", buf |-> g.buf, idx |-> g.idx + Len(bytes) + 1]
         ELSE Gen(SubSeq(g.buf, 1, g.idx) \o bytes
                      \o SubSeq(g.buf, g.idx + Len(bytes) + 1, Len(g.buf)),
                  g.idx + Len(bytes))

\* gen_slice!(bytes): copy the bytes at the offset when they fit.
gen_slice(g, bytes) ==
    IF g.tag # "Ok" THEN g
    ELSE IF Len(g.buf) < g.idx + Len(bytes)
         THEN [tag |-> "BufferTooSmall", buf |-> g.buf, idx |-> g.idx + Len(bytes)]
         ELSE Gen(SubSeq(g.buf, 1, g.idx) \o bytes
                      \o SubSeq(g.buf, g.idx + Len(bytes) + 1, Len(g.buf)),
                  g.idx + Len(bytes))

gen_vlusize(g, n) == gen_slice(g, usize_to_bits(n))

gen_vli64(g, n) == gen_slice(g, i64_to_bits(n))

\* gen_vli64(input, i.into()): the conversion runs first, and may panic.
gen_converted(g, n) ==
    IF ~n.ok THEN [tag |-> "Panic", buf |-> g.buf, idx |-> g.idx] ELSE gen_vli64(g, n.v)

gen_variable_index(g, i) == IF g.tag # "Ok" THEN g ELSE gen_converted(g, i64_from(i))

gen_coefficient(g, c) == gen_vli64(g, c)

gen_linear_combination_entry(g, entry) ==
    gen_coefficient(gen_variable_index(g, entry[1]), entry[2])

gen_assignment(g, r) == gen_vli64(g, r[2])

\* A length as a usize.
LenAsUsize(l) == FromNat(Len(l))

\* gen_many_ref!(&lc.0, gen_linear_combination_entry): the generator is
\* folded over l[i..]; after a failure the remaining elements are passed over.
RECURSIVE gen_many_entry(_, _, _)
gen_many_entry(g, l, i) ==
    IF i > Len(l) \/ g.tag # "Ok" THEN g
    ELSE gen_many_entry(gen_linear_combination_entry(g, l[i]), l, i + 1)

gen_linear_combination(g, lc) == gen_many_entry(gen_vlusize(g, LenAsUsize(lc)), lc, 1)

gen_constraint(g, c) ==
    gen_linear_combination(
        gen_linear_combination(gen_linear_combination(g, c.a), c.b), c.c)

\* gen_many!(n, gen_vli64)
RECURSIVE gen_many_vli64(_, _, _)
gen_many_vli64(g, l, i) ==
    IF i > Len(l) \/ g.tag # "Ok" THEN g
    ELSE gen_many_vli64(gen_vli64(g, l[i]), l, i + 1)

\* f is h.to_file(): the version and the entries.
gen_file(g, f) ==
    gen_many_vli64(gen_vlusize(gen_vlusize(g, f[1]), LenAsUsize(f[2])), f[2], 1)

gen_header(g, h) == gen_file(g, to_file(h))

\* gen_many_ref!(&r.1, gen_constraint)
RECURSIVE gen_many_constraint(_, _, _)
gen_many_constraint(g, l, i) ==
    IF i > Len(l) \/ g.tag # "Ok" THEN g
    ELSE gen_many_constraint(gen_constraint(g, l[i]), l, i + 1)

gen_r1cs(g, r) ==
    gen_many_constraint(
        gen_vlusize(gen_header(gen_slice(g, MagicR1CS), r.h), LenAsUsize(r.cs)),
        r.cs, 1)

\* gen_many_ref!(&r.1, gen_assignment)
RECURSIVE gen_many_assignment(_, _, _)
gen_many_assignment(g, l, i) ==
    IF i > Len(l) \/ g.tag # "Ok" THEN g
    ELSE gen_many_assignment(gen_assignment(g, l[i]), l, i + 1)

gen_assignments(g, r) ==
    gen_many_assignment(gen_header(gen_slice(g, MagicAssignments), r.h), r.as, 1)

\* data.resize(sz, 0)
resize(buf, sz) ==
    IF sz <= Len(buf) THEN SubSeq(buf, 1, sz)
    ELSE buf \o SubSeq([k \in 1..(sz - Len(buf)) |-> 0], 1, sz - Len(buf))

(***************************************************************************)
(* The values and the byte strings the calls are made on.                  *)
(***************************************************************************)
\* The integers 0..SmallMax are all tried, besides the powers of two.
SmallMax == 130

\* Hand-made VarInts have up to MaxGroups continuation bytes.
MaxGroups == 11

\* A header has up to MaxExtra entries after the four known ones.
MaxExtra == 2

\* An R1CS value has up to MaxConstraints constraints (or the XOR circuit's).
MaxConstraints == 1

\* An Assignments value has up to MaxVars instance and witness variables.
MaxVars == 1

MinusOne == Ones(W)

\* 0, 1, ..., every 2^k - 1 and 2^k, and the complements of all of these
\* (as i64: -1, -2, ..., -2^k, -2^k - 1), up to the extremes of both types.
SampleInts ==
    LET s == {FromNat(n) : n \in 0..SmallMax}
                 \cup {Ones(k) : k \in 0..W} \cup {Pow2(k) : k \in 0..(W - 1)}
    IN s \cup {Not(x) : x \in s}

EdgeU64 == {Zero, One, FromNat(127), FromNat(128), MaxI64, MinI64, MinusOne}

EdgeI64 == {Zero, One, MinusOne, MinI64, MaxI64}

EdgeIndex == {Zero, MaxI64, MinusOne}

EdgeVariables ==
    {Constant} \cup {Instance(i) : i \in EdgeIndex} \cup {Witness(i) : i \in EdgeIndex}

EdgeEntries == {One, MinusOne, MinI64}

\* The sequences over s of length at most n.
RECURSIVE SeqsUpTo(_, _)
SeqsUpTo(s, n) ==
    IF n = 0 THEN {<<>>}
    ELSE LET shorter == SeqsUpTo(s, n - 1)
         IN shorter \cup {Append(l, x) : l \in {q \in shorter : Len(q) = n - 1}, x \in s}

\* The header of the tests: version 0, characteristic 64513, degree 1, one
\* instance variable and two witness variables.
BaseHeader == Header(Zero, FromNat(64513), One, One, FromNat(2), <<>>)

SampleHeaders ==
    {[BaseHeader EXCEPT ![f] = x] : f \in {"v", "p", "m", "nx", "nw"}, x \in EdgeU64}
        \cup {[BaseHeader EXCEPT !.ignored = l] : l \in SeqsUpTo(EdgeEntries, MaxExtra)}

\* The constraints of the XOR circuit of tests::r1cs_encode_decode.
XorCircuit ==
    << [a |-> << <<Constant, One>>, <<Witness(Zero), MinusOne>> >>,
        b |-> << <<Witness(Zero), One>> >>,
        c |-> << <<Constant, Zero>> >>],
       [a |-> << <<Constant, One>>, <<Witness(One), MinusOne>> >>,
        b |-> << <<Witness(One), One>> >>,
        c |-> << <<Constant, Zero>> >>],
       [a |-> << <<Witness(Zero), FromNat(2)>> >>,
        b |-> << <<Witness(One), One>> >>,
        c |-> << <<Instance(Zero), MinusOne>>, <<Witness(Zero), One>>,
                 <<Witness(One), One>> >>] >>

SampleConstraints ==
    {[a |-> << <<vi, One>> >>, b |-> <<>>, c |-> << <<Constant, Zero>> >>] :
        vi \in EdgeVariables}
        \cup {[a |-> <<>>, b |-> << <<Witness(Zero), k>> >>, c |-> <<>>] :
                k \in {MinI64, MaxI64}}

SampleR1CS ==
    {[h |-> h, cs |-> <<>>] : h \in SampleHeaders}
        \cup {[h |-> BaseHeader, cs |-> XorCircuit]}
        \cup {[h |-> BaseHeader, cs |-> l] : l \in SeqsUpTo(SampleConstraints, MaxConstraints)}

\* c repeated k times.
Rep(c, k) == SubSeq([j \in 1..k |-> c], 1, k)

\* The Assignments values whose sequence is the constant, then nx instance
\* and nw witness entries, as the header says.
WellFormed(nx, nw, xs) ==
    << <<Constant, xs[1]>> >>
        \o [j \in 1..nx |-> <<Instance(FromNat(j - 1)), xs[1 + j]>>]
        \o [j \in 1..nw |-> <<Witness(FromNat(j - 1)), xs[1 + nx + j]>>]

\* The constant, x_0.., w_0.. all assigned 1, but for one of them, assigned
\* an extreme value; and the headers with an extreme field, no variables.
SampleAssignments ==
    {[h |-> [BaseHeader EXCEPT !.nx = FromNat(nx), !.nw = FromNat(nw)],
      as |-> WellFormed(nx, nw, [Rep(One, 1 + nx + nw) EXCEPT ![at] = x])] :
        <<nx, nw, at>> \in
            {t \in (0..MaxVars) \X (0..MaxVars) \X (1..(1 + 2 * MaxVars)) :
                t[3] <= 1 + t[1] + t[2]},
        x \in EdgeI64}
        \cup {[h |-> [BaseHeader EXCEPT !.p = x, !.nx = Zero, !.nw = Zero],
               as |-> WellFormed(0, 0, <<One>>)] : x \in EdgeU64}

\* Hand-made VarInts: k continuation bytes, then a final byte.
CraftedVarInts ==
    {Rep(c, k) \o <<l>> : c \in {128, 255}, k \in 0..MaxGroups, l \in {0, 1, 2, 127}}

RECURSIVE Flatten(_)
Flatten(chunks) == IF chunks = <<>> THEN <<>> ELSE Head(chunks) \o Flatten(Tail(chunks))

\* Hand-made header entries: fewer than four, or four (one of them possibly
\* negative or extreme) followed by up to MaxExtra more.
BaseEntries == <<FromNat(64513), One, One, FromNat(2)>>

CraftedEntries ==
    SeqsUpTo({Zero, One, MinusOne}, 3)
        \cup {SubSeq(BaseEntries, 1, k) : k \in 0..3}
        \cup {f \o l :
                f \in {BaseEntries}
                        \cup {[BaseEntries EXCEPT ![i] = x] :
                                i \in 1..4, x \in {MinusOne, MinI64, MaxI64}},
                l \in SeqsUpTo(EdgeEntries, MaxExtra)}

\* The bytes of a file with these header entries, version 0, and a body
\* that matches them: no constraints, or 1 + nx + nw assignments of 1.
CraftedFile(k, entries) ==
    (IF k = "r1cs" THEN MagicR1CS ELSE MagicAssignments)
        \o <<0>> \o usize_to_bits(LenAsUsize(entries))
        \o Flatten([j \in 1..Len(entries) |-> i64_to_bits(entries[j])])
        \o (IF k = "r1cs" THEN <<0>>
            ELSE IF Len(entries) >= 4 /\ AsCount(entries[3]) < 4 /\ AsCount(entries[4]) < 4
                 THEN Rep(2, 1 + AsCount(entries[3]) + AsCount(entries[4]))
                 ELSE <<2>>)

(***************************************************************************)
(* The calls.                                                              *)
(***************************************************************************)
NoVal == <<>>

NoRes == [tag |-> "None", val |-> <<>>, err |-> ""]

\* A path option left empty, one naming no file, one naming a file.
NotGiven == [given |-> FALSE, found |-> FALSE, bytes |-> <<>>]

Missing == [given |-> TRUE, found |-> FALSE, bytes |-> <<>>]

File(bytes) == [given |-> TRUE, found |-> TRUE, bytes |-> bytes]

NoOptions == [r1cs |-> NotGiven, assignments |-> NotGiven]

Ints == {"usize", "i64"}

Files == {"r1cs", "assignments"}

Init ==
    /\ build \in {"debug", "release"}
    /\ pc = "idle"
    /\ kind = "none"
    /\ origin = "none"
    /\ val = NoVal
    /\ data = <<>>
    /\ res = NoRes
    /\ raw = <<>>
    /\ full = <<>>
    /\ opts = NoOptions
    /\ stage = "none"
    /\ rbuf = <<>>
    /\ out = <<>>

\* What a parser's result is to the caller of decode.
Returned(p) ==
    CASE p.tag = "Ok" -> [tag |-> "Ok", val |-> p.val, err |-> ""]
      [] p.tag = "Panic" -> [tag |-> "Panic", val |-> <<>>, err |-> ""]
      [] OTHER -> [tag |-> "Err", val |-> <<>>, err |-> p.tag]

\* tests::test_vlusize: let res = usize_to_bits(value)
EncodeUsize ==
    /\ pc = "idle"
    /\ \E n \in SampleInts :
        /\ val' = n
        /\ data' = usize_to_bits(n)
    /\ kind' = "usize"
    /\ origin' = "value"
    /\ pc' = "encoded"
    /\ res' = [tag |-> "Ok", val |-> <<>>, err |-> ""]
    /\ UNCHANGED <<cli, build, raw, full>>

\* tests::test_vli64: let res = i64_to_bits(value)
EncodeI64 ==
    /\ pc = "idle"
    /\ \E n \in SampleInts :
        /\ val' = n
        /\ data' = i64_to_bits(n)
    /\ kind' = "i64"
    /\ origin' = "value"
    /\ pc' = "encoded"
    /\ res' = [tag |-> "Ok", val |-> <<>>, err |-> ""]
    /\ UNCHANGED <<cli, build, raw, full>>

\* Bytes from outside handed to vlusize or vli64.
FeedVarInt ==
    /\ pc = "idle"
    /\ \E k \in Ints, bytes \in CraftedVarInts :
        /\ kind' = k
        /\ data' = bytes
    /\ origin' = "bytes"
    /\ pc' = "fed"
    /\ UNCHANGED <<cli, build, val, res, raw, full>>

\* A file from outside handed to R1CS::decode or Assignments::decode.
FeedFile ==
    /\ pc = "idle"
    /\ \E k \in Files, entries \in CraftedEntries :
        /\ kind' = k
        /\ raw' = entries
        /\ data' = CraftedFile(k, entries)
    /\ origin' = "bytes"
    /\ pc' = "fed"
    /\ UNCHANGED <<cli, build, val, res, full>>

\* R1CS::encode and Assignments::encode up to the loop: let mut data = Vec::new()
BeginEncode ==
    /\ pc = "idle"
    /\ \/ /\ kind' = "r1cs"
          /\ val' \in SampleR1CS
       \/ /\ kind' = "assignments"
          /\ val' \in SampleAssignments
    /\ origin' = "value"
    /\ data' = <<>>
    /\ pc' = "encoding"
    /\ UNCHANGED <<cli, build, res, raw, full>>

\* One turn of the loop of R1CS::encode and Assignments::encode: the whole
\* value is generated from offset 0; Ok returns the buffer, BufferTooSmall(sz)
\* resizes it and goes round again.  The generators return no other error.
EncodeStep ==
    /\ pc = "encoding"
    /\ LET g == IF kind = "r1cs" THEN gen_r1cs(Gen(data, 0), val)
                ELSE gen_assignments(Gen(data, 0), val)
       IN CASE g.tag = "Ok" ->
                 /\ data' = g.buf
                 /\ pc' = "encoded"
                 /\ res' = [tag |-> "Ok", val |-> <<>>, err |-> ""]
            [] g.tag = "BufferTooSmall" ->
                 /\ data' = resize(g.buf, g.idx)
                 /\ pc' = "encoding"
                 /\ res' = res
            [] g.tag = "Panic" ->
                 /\ data' = g.buf
                 /\ pc' = "encode_panicked"
                 /\ res' = [tag |-> "Panic", val |-> <<>>, err |-> ""]
    /\ UNCHANGED <<cli, build, kind, origin, val, raw, full>>

\* The encoded file is cut short before it is decoded.
Truncate ==
    /\ pc = "encoded"
    /\ kind \in Files
    /\ origin = "value"
    /\ \E k \in 0..(Len(data) - 1) : data' = SubSeq(data, 1, k)
    /\ full' = data
    /\ origin' = "prefix"
    /\ UNCHANGED <<cli, build, pc, kind, val, res, raw>>

\* vlusize, vli64, R1CS::decode, Assignments::decode on the buffer.
Decode ==
    /\ pc \in {"encoded", "fed"}
    /\ LET p == CASE kind = "usize" -> vlusize(data)
                  [] kind = "i64" -> vli64(data)
                  [] kind = "r1cs" -> r1cs(data)
                  [] kind = "assignments" -> assignments(data)
       IN /\ res' = Returned(p)
          /\ pc' = IF p.tag = "Panic" THEN "decode_panicked" ELSE "decoded"
    /\ UNCHANGED <<cli, build, kind, origin, val, data, raw, full>>

\* The value decoded from a hand-made file is encoded again.
Reencode ==
    /\ pc = "decoded"
    /\ origin = "bytes"
    /\ kind \in Files
    /\ res.tag = "Ok"
    /\ val' = res.val
    /\ data' = <<>>
    /\ origin' = "reencode"
    /\ pc' = "encoding"
    /\ UNCHANGED <<cli, build, kind, res, raw, full>>

\* The variable indices the conversions are tried on: small ones, and the
\* ones around 2^63 and 2^64.
SampleVariables ==
    {Constant}
        \cup {Instance(i) : i \in EdgeIndex \cup {One, Sub(MaxI64, One), MinI64}}
        \cup {Witness(i) : i \in EdgeIndex \cup {One, Sub(MaxI64, One), MinI64}}

\* What a conversion leaves: its value, or the panic of an overflow.
Converted(c, done) ==
    /\ res' = [tag |-> IF c.ok THEN "Ok" ELSE "Panic",
               val |-> IF c.ok THEN c.v ELSE <<>>, err |-> ""]
    /\ pc' = IF c.ok THEN done ELSE "convert_panicked"

\* VariableIndex::from(i)
ConvertI64 ==
    /\ pc = "idle"
    /\ \E n \in SampleInts :
        /\ val' = n
        /\ Converted(VariableIndex_from(n), "converted")
    /\ kind' = "from_i64"
    /\ origin' = "value"
    /\ UNCHANGED <<cli, build, data, raw, full>>

\* i64::from(&v)
ConvertIndex ==
    /\ pc = "idle"
    /\ \E v \in SampleVariables :
        /\ val' = v
        /\ Converted(i64_from(v), "converted")
    /\ kind' = "from_index"
    /\ origin' = "value"
    /\ UNCHANGED <<cli, build, data, raw, full>>

\* The other conversion applied to what the first one gave.
ConvertBack ==
    /\ pc = "converted"
    /\ Converted(IF kind = "from_i64" THEN i64_from(res.val) ELSE VariableIndex_from(res.val),
                 "inverted")
    /\ UNCHANGED <<cli, build, kind, origin, val, data, raw, full>>

Next ==
    \/ EncodeUsize
    \/ EncodeI64
    \/ FeedVarInt
    \/ FeedFile
    \/ BeginEncode
    \/ EncodeStep
    \/ Truncate
    \/ Decode
    \/ Reencode
    \/ ConvertI64
    \/ ConvertIndex
    \/ ConvertBack

Spec == Init /\ [][Next]_vars

(***************************************************************************)
(* The command-line tool r1cs_decode: main handles the R1CS path, then the *)
(* assignments path.  A panic ends the process.                            *)
(***************************************************************************)
OtherKind(k) == IF k = "r1cs" THEN "assignments" ELSE "r1cs"

\* What a file given to the tool may hold: nothing, a well-formed file, a
\* well-formed file cut short, a file of the other kind, a header with no
\* entries, a header with a negative field, an extra entry of i64::MIN.
CliFiles(k) ==
    {<<>>,
     CraftedFile(k, BaseEntries),
     SubSeq(CraftedFile(k, BaseEntries), 1, 7),
     CraftedFile(OtherKind(k), BaseEntries),
     CraftedFile(k, <<>>),
     CraftedFile(k, [BaseEntries EXCEPT ![1] = MinusOne]),
     CraftedFile(k, BaseEntries \o <<MinI64>>)}

PathStates(k) == {NotGiven, Missing} \cup {File(b) : b \in CliFiles(k)}

\* main up to the first block: the options are parsed, the buffer is empty.
CliInit ==
    /\ build \in {"debug", "release"}
    /\ pc = "idle"
    /\ kind = "none"
    /\ origin = "none"
    /\ val = NoVal
    /\ data = <<>>
    /\ res = NoRes
    /\ raw = <<>>
    /\ full = <<>>
    /\ opts \in [r1cs : PathStates("r1cs"), assignments : PathStates("assignments")]
    /\ stage = "r1cs"
    /\ rbuf = <<>>
    /\ out = <<>>

Line(l, k) == [line |-> l, of |-> k]

\* R1CS::decode(&buf).unwrap() and the two println! after it: a value is
\* printed; an Err, or a panic inside decode, ends the process by a panic.
Unwrapped(k, r, next) ==
    /\ res' = r
    /\ IF r.tag = "Ok"
       THEN /\ out' = out \o <<Line(">", k), Line("value", k)>>
            /\ stage' = next
       ELSE /\ out' = out
            /\ stage' = "aborted"

\* One block of main: nothing for an empty path; "Could not load" when the
\* file does not open; otherwise the file is read into the cleared buffer
\* and decoded.
Block(k, f, next) ==
    IF ~f.given
    THEN stage' = next /\ UNCHANGED <<rbuf, out, res>>
    ELSE IF ~f.found
    THEN /\ out' = Append(out, Line("Could not load", k))
         /\ stage' = next
         /\ UNCHANGED <<rbuf, res>>
    ELSE /\ rbuf' = f.bytes
         /\ Unwrapped(k, Returned(IF k = "r1cs" THEN r1cs(f.bytes) ELSE assignments(f.bytes)),
                      next)

\* if opts.r1cs.len() > 0 { ... }
R1csBlock ==
    /\ stage = "r1cs"
    /\ Block("r1cs", opts.r1cs, "assignments")
    /\ UNCHANGED <<build, pc, kind, origin, val, data, raw, full, opts>>

\* if opts.assignments.len() > 0 { ... }
AssignmentsBlock ==
    /\ stage = "assignments"
    /\ Block("assignments", opts.assignments, "exit")
    /\ UNCHANGED <<build, pc, kind, origin, val, data, raw, full, opts>>

CliNext ==
    \/ R1csBlock
    \/ AssignmentsBlock

CliSpec == CliInit /\ [][CliNext]_vars

(***************************************************************************)
(* What the claimed properties speak of, stated on the bytes and the       *)
(* values themselves.                                                      *)
(***************************************************************************)
\* Bit b of the 7-bit group of a byte.
GroupBit(byte, b) == ((byte % 128) \div (2 ^ b)) % 2

\* bytes is the minimal little-endian base-128 encoding of n: every byte but
\* the last has its top bit set, the last has not, the 7-bit groups are the
\* bits of n from the least significant up, and no final group is zero
\* unless it is the only one.
IsBase128Of(bytes, n) ==
    /\ Len(bytes) >= 1
    /\ \A k \in 1..(Len(bytes) - 1) : bytes[k] \in 128..255
    /\ bytes[Len(bytes)] \in 0..127
    /\ Len(bytes) = 1 \/ bytes[Len(bytes)] # 0
    /\ \A k \in 1..Len(bytes), b \in 0..6 :
          IF 7 * (k - 1) + b < W
          THEN GroupBit(bytes[k], b) = Bit(n, 7 * (k - 1) + b)
          ELSE GroupBit(bytes[k], b) = 0
    /\ \A i \in 0..(W - 1) : i \div 7 >= Len(bytes) => Bit(n, i) = 0

\* The groups of the bytes describe a value with a bit at or above bit W.
DoesNotFit(bytes) ==
    \E k \in 1..Len(bytes), b \in 0..6 :
        7 * (k - 1) + b >= W /\ GroupBit(bytes[k], b) = 1

Panicked == pc \in {"encode_panicked", "decode_panicked"}

Decoded == pc \in {"decoded", "decode_panicked"}

\* The file format: magic, version, header entries and body, each integer
\* in its VarInt or SignedVarInt form.
HeaderChunks(h) ==
    <<usize_to_bits(h.v), usize_to_bits(FromNat(4 + Len(h.ignored))),
      i64_to_bits(h.p), i64_to_bits(h.m), i64_to_bits(h.nx), i64_to_bits(h.nw)>>
        \o [j \in 1..Len(h.ignored) |-> i64_to_bits(h.ignored[j])]

PairBytes(e) == i64_to_bits(i64_from(e[1]).v) \o i64_to_bits(e[2])

LCBytes(lc) ==
    usize_to_bits(FromNat(Len(lc))) \o Flatten([j \in 1..Len(lc) |-> PairBytes(lc[j])])

ConstraintBytes(c) == LCBytes(c.a) \o LCBytes(c.b) \o LCBytes(c.c)

Serialized(k, x) ==
    IF k = "r1cs"
    THEN MagicR1CS \o Flatten(HeaderChunks(x.h)) \o usize_to_bits(FromNat(Len(x.cs)))
             \o Flatten([j \in 1..Len(x.cs) |-> ConstraintBytes(x.cs[j])])
    ELSE MagicAssignments \o Flatten(HeaderChunks(x.h))
             \o Flatten([j \in 1..Len(x.as) |-> i64_to_bits(x.as[j][2])])

(***************************************************************************)
(* The claims.                                                             *)
(***************************************************************************)
\* C1: every R1CS value is encoded without failure and decoded from the
\* bytes to a value equal to it.
C1_R1CSRoundTrip ==
    (kind = "r1cs" /\ origin = "value") =>
        /\ ~Panicked
        /\ pc = "decoded" => (res.tag = "Ok" /\ res.val = val)

\* C2: every well-formed Assignments value, of whatever signed 64-bit values,
\* is encoded without failure and decoded from the bytes to a value equal to it.
C2_AssignmentsRoundTrip ==
    (kind = "assignments" /\ origin = "value") =>
        /\ ~Panicked
        /\ pc = "decoded" => (res.tag = "Ok" /\ res.val = val)

\* C3: for every i64 n, minimum and maximum included, the first byte of
\* i64_to_bits(n) is even for n >= 0 and odd for n < 0, and vli64 of the bytes
\* returns n with no arithmetic overflow.
C3_SignedRoundTrip ==
    (kind = "i64" /\ origin = "value" /\ pc # "idle") =>
        /\ data[1] % 2 = (IF IsNegative(val) THEN 1 ELSE 0)
        /\ ~Panicked
        /\ pc = "decoded" => (res.tag = "Ok" /\ res.val = val)

\* C4: for every usize n, usize_to_bits(n) is the minimal little-endian
\* base-128 encoding of n, and vlusize of those bytes returns n.
C4_VarIntRoundTrip ==
    (kind = "usize" /\ origin = "value" /\ pc # "idle") =>
        /\ IsBase128Of(data, val)
        /\ ~Panicked
        /\ pc = "decoded" => (res.tag = "Ok" /\ res.val = val)

\* C4's case: the maximum value, ten bytes long, encoded and decoded.
C4_Witness ==
    /\ kind = "usize" /\ origin = "value" /\ pc = "decoded"
    /\ val = Ones(W) /\ Len(data) = 10 /\ res.tag = "Ok"

\* C5: decoding a file whose header has fewer than four entries returns a
\* decode error, and does not panic.
C5_ShortHeaderIsError ==
    (origin = "bytes" /\ kind \in Files /\ Len(raw) < 4 /\ Decoded) => res.tag = "Err"

\* C6: decoding a VarInt or SignedVarInt whose groups describe a value of
\* more than 64 bits returns a decode error: no value, no panic.
C6_OverflowIsError ==
    (origin = "bytes" /\ kind \in Ints /\ DoesNotFit(data) /\ Decoded) => res.tag = "Err"

\* C7: decoding a strict prefix of the encoding of a value returns a decode
\* error: no value, no panic.
C7_PrefixIsError ==
    (origin = "prefix" /\ Decoded) => res.tag = "Err"

\* The entries of a hand-made header decode to a header, and the body of the
\* file is the one those entries ask for.
Decodable(k, entries) ==
    /\ Len(entries) >= 4
    /\ \A i \in 1..4 : ~IsNegative(entries[i])
    /\ k = "assignments" => (AsCount(entries[3]) < 4 /\ AsCount(entries[4]) < 4)

\* C8: the k entries after the four known ones are stored in order in
\* _ignored, and encoding the decoded header emits them unchanged after nw:
\* the re-encoded file is the file decoded, and decodes to the same entries.
C8_IgnoredPreserved ==
    (origin \in {"bytes", "reencode"} /\ kind \in Files /\ Decodable(kind, raw)) =>
        /\ ~Panicked
        /\ pc = "decoded" =>
              (res.tag = "Ok" /\ res.val.h.ignored = SubSeq(raw, 5, Len(raw)))
        /\ pc = "encoded" => data = CraftedFile(kind, raw)

\* C9: when encode returns Ok, the buffer is exactly the serialized value:
\* magic, header and body in order, and nothing after them.
C9_ExactBuffer ==
    (kind \in Files /\ pc = "encoded" /\ origin \in {"value", "reencode"}) =>
        /\ res.tag = "Ok"
        /\ Len(data) = Len(Serialized(kind, val))
        /\ data = Serialized(kind, val)

\* C9's case: the XOR circuit encoded, after the buffer grew write by write.
C9_Witness ==
    /\ kind = "r1cs" /\ pc = "encoded" /\ origin = "value"
    /\ val.cs = XorCircuit /\ Len(data) > 4

\* C10: the loop of encode ends by returning: every retry leaves the buffer
\* strictly longer and never longer than the serialized value, and the caller
\* sees Ok, never BufferTooSmall and never a panic in place of a return.
C10_EncodeReturns ==
    /\ [][(pc = "encoding" /\ pc' = "encoding") =>
              (Len(data') > Len(data) /\ Len(data') <= Len(Serialized(kind, val)))]_vars
    /\ [](pc # "encode_panicked")
    /\ [](pc = "encoded" => res.tag = "Ok")

\* C11: decoding a file whose header has four entries or more, one of the
\* first four of them negative, returns a decode error: no Header is
\* produced, and the call does not panic.
C11_NegativeFieldIsError ==
    (origin = "bytes" /\ kind \in Files /\ Decoded
        /\ Len(raw) >= 4 /\ \E i \in 1..4 : IsNegative(raw[i])) => res.tag = "Err"

\* The file at a path of the tool does not open or does not decode.
Fails(k, f) ==
    /\ f.given
    /\ ~f.found \/ Returned(IF k = "r1cs" THEN r1cs(f.bytes) ELSE assignments(f.bytes)).tag = "Err"

Printed(l, k) == \E i \in 1..Len(out) : out[i] = Line(l, k)

\* C12: in the command-line tool a file that does not open, or a decode
\* error, is printed for its path and main goes on: it handles the
\* assignments path after a failing R1CS path, and a decode error never ends
\* the process.
C12_ErrorsPrintedAndContinue ==
    /\ stage = "aborted" => res.tag # "Err"
    /\ (stage \in {"assignments", "exit"} /\ Fails("r1cs", opts.r1cs)) =>
           \E l \in {"Could not load", "Could not decode"} : Printed(l, "r1cs")
    /\ (stage = "exit" /\ Fails("assignments", opts.assignments)) =>
           \E l \in {"Could not load", "Could not decode"} : Printed(l, "assignments")

\* The variable index the format gives the signed integer n: 0 is the
\* constant, n < 0 is Instance(i) with i + 1 + n = 0, n > 0 is Witness(i)
\* with i + 1 = n.
IsIndexOf(v, n) ==
    IF n = Zero THEN v = Constant
    ELSE IF IsNegative(n) THEN v.t = "Instance" /\ Add(Add(v.i, One), n) = Zero
    ELSE v.t = "Witness" /\ Add(v.i, One) = n

\* C13: the conversions between i64 and VariableIndex are inverse to each
\* other and do not overflow: every i64 n, the minimum included, becomes the
\* index the format gives it and comes back as n, and every VariableIndex
\* with an index below 2^63 becomes an i64 and comes back as itself.
C13_IndexConversionsInverse ==
    /\ kind = "from_i64" =>
          /\ pc # "convert_panicked"
          /\ pc = "converted" => IsIndexOf(res.val, val)
          /\ pc = "inverted" => res.val = val
    /\ (kind = "from_index" /\ ~IsNegative(val.i)) =>
          /\ pc # "convert_panicked"
          /\ pc = "converted" => IsIndexOf(val, res.val)
          /\ pc = "inverted" => res.val = val

====
